---- MODULE Spec2Model ----
(***************************************************************************)
(* A model of RingBufferOf[T] (ringbufferof.go): a growable ring buffer    *)
(* over a flat backing slice with a read cursor r and a write cursor w,   *)
(* an optional bound maxSize, a discard counter and a discard callback.   *)
(*                                                                         *)
(* The struct is the record rb; every method is an operator from the      *)
(* struct (and the arguments) to the struct after the call and what the   *)
(* call returns, written statement by statement from the Go source.  An   *)
(* action is one call of a public method by the single owner.             *)
(***************************************************************************)
EXTENDS Integers, Sequences, FiniteSets, TLC

\* ---------------------------------------------------------------- constants

minBufferSize == 2

growThreshold == 1024

\* The zero value of T (T is int in the tests): what make([]T, n) fills the
\* slots with and what an empty read returns beside ErrIsEmpty.
Zero == 0

ErrIsEmpty == "ErrIsEmpty"

nil == "nil"

\* ------------------------------------------------------------------- bounds

\* initialSize arguments are 0..MaxInit
MaxInit == 3

\* maxBufferSize / SetMaxSize arguments are 0..MaxMax
MaxMax == 3

\* Truncate, LPeekN and RPeekN arguments are -1..MaxTrunc
MaxTrunc == 3

\* a call that would grow the backing slice beyond MaxCap slots is not made
MaxCap == 6

\* a Write that would raise the discard counter beyond MaxDiscards is not made
\* (in the runs of Spec and of SpecWide)
MaxDiscards == 1

\* a run of SpecHist makes at most MaxHist calls
MaxHist == 6

\* a call of a run of SpecFill that would grow the backing slice beyond
\* MaxFillCap slots is not made
MaxFillCap == 2048

\* a run of SpecFill reads only while the read cursor is below MaxFillRead
MaxFillRead == 2

\* the initialSize arguments of the runs of SpecFill (the ones the tests fill
\* to a hundred elements)
FillInits == {1, 10}

\* the owner writes 0..MaxPrefill elements and reads 0..MaxPreread of them
\* before the goroutines of a run of SpecRace start
MaxPrefill == 2

MaxPreread == 1

\* the runs of SpecWide: initialSize arguments are 2..MaxWideInit, Truncate and
\* SetMaxSize arguments are 0..MaxWideTrunc, the values written are
\* 1..MaxWideVal, and a call that would grow the backing slice beyond
\* MaxWideCap slots is not made
MaxWideInit == 8

MaxWideTrunc == 4

MaxWideVal == 7

MaxWideCap == 8

\* the values written: T is never inspected by the code, so two values that
\* differ from each other and from the zero value tell every slot apart
Vals == {1, 2}

\* ------------------------------------------------------------------ helpers

\* make([]T, n)
make(n) == [i \in 0 .. n - 1 |-> Zero]

\* s[lo:hi] of a slice held as a function on 0..len-1, as a sequence
Slice(s, lo, hi) == [i \in 1 .. hi - lo |-> s[lo + i - 1]]

\* the last element of a non-empty sequence
Last(s) == s[Len(s)]

\* the last n elements of s (all of s when it is shorter)
LastN(s, n) == IF Len(s) >= n THEN SubSeq(s, Len(s) - n + 1, Len(s)) ELSE s

\* the first n elements of s (all of s when it is shorter)
FirstN(s, n) == IF Len(s) >= n THEN SubSeq(s, 1, n) ELSE s

\* ------------------------------------------------------------------ methods

\* NewOf without the floor for initialSize
NewOfNoFloor(initialSize, maxBufferSize) ==
    LET max == IF Len(maxBufferSize) > 0 /\ maxBufferSize[1] >= minBufferSize
               THEN maxBufferSize[1] ELSE 0
    IN  [buf         |-> make(initialSize),
         initialSize |-> initialSize,
         size        |-> initialSize,
         maxSize     |-> max,
         discards    |-> 0,
         r           |-> 0,
         w           |-> 0,
         onDiscards  |-> nil]

NewOf(initialSize, maxBufferSize) ==
    LET init == IF initialSize < minBufferSize THEN minBufferSize ELSE initialSize
        max  == IF Len(maxBufferSize) > 0 /\ maxBufferSize[1] >= minBufferSize
                THEN maxBufferSize[1] ELSE 0
    IN  [buf         |-> make(init),
         initialSize |-> init,
         size        |-> init,
         maxSize     |-> max,
         discards    |-> 0,
         r           |-> 0,
         w           |-> 0,
         onDiscards  |-> nil]

NewUnboundedOf(initialSize) == NewOf(initialSize, <<0>>)

NewFixedOf(initialSize) == NewOf(initialSize, <<initialSize>>)

\* Len without the case of wrapped contents (w < r)
LenNoWrap(b) ==
    IF b.r = b.w THEN 0
    ELSE IF b.w > b.r THEN b.w - b.r
    ELSE b.r - b.w

BufLen(b) ==
    IF b.r = b.w THEN 0
    ELSE IF b.w > b.r THEN b.w - b.r
    ELSE b.size - b.r + b.w

IsEmpty(b) == b.r = b.w

Capacity(b) == b.size

MaxSize(b) == b.maxSize

Discards(b) == b.discards

\* PeekAll that appends the head span r.buf[:r.w] before the tail span r.buf[r.r:]
PeekAllHeadFirst(b) ==
    IF b.r = b.w THEN <<>>
    ELSE IF b.w > b.r THEN Slice(b.buf, b.r, b.w)
    ELSE Slice(b.buf, 0, b.w) \o Slice(b.buf, b.r, b.size)

\* a nil slice is the empty sequence
PeekAll(b) ==
    IF b.r = b.w THEN <<>>
    ELSE IF b.w > b.r THEN Slice(b.buf, b.r, b.w)
    ELSE Slice(b.buf, b.r, b.size) \o Slice(b.buf, 0, b.w)

RPeekN(b, n) ==
    IF n <= 0 THEN <<>>
    ELSE LET all == PeekAll(b)
             l   == Len(all)
         IN  IF l >= n THEN SubSeq(all, l - n + 1, l) ELSE all

LPeekN(b, n) ==
    IF n <= 0 THEN <<>>
    ELSE LET all == PeekAll(b)
         IN  IF Len(all) >= n THEN SubSeq(all, 1, n) ELSE all

\* Read with the wrap test one slot early (r.r == r.size-1)
ReadWrapsEarly(b) ==
    IF b.r = b.w THEN [b |-> b, v |-> Zero, err |-> ErrIsEmpty]
    ELSE LET r1 == b.r + 1
             r2 == IF r1 >= b.size - 1 THEN 0 ELSE r1
         IN  [b |-> [b EXCEPT !.r = r2], v |-> b.buf[b.r], err |-> nil]

\* Read, RRead, Peek, RPeek: [b |-> struct after, v |-> value, err |-> error]
Read(b) ==
    IF b.r = b.w THEN [b |-> b, v |-> Zero, err |-> ErrIsEmpty]
    ELSE LET r1 == b.r + 1
             r2 == IF r1 = b.size THEN 0 ELSE r1
         IN  [b |-> [b EXCEPT !.r = r2], v |-> b.buf[b.r], err |-> nil]

\* RRead that returns the slot at the write cursor before stepping it back
RReadAtCursor(b) ==
    IF b.r = b.w THEN [b |-> b, v |-> Zero, err |-> ErrIsEmpty]
    ELSE [b   |-> [b EXCEPT !.w = IF b.w = 0 THEN b.size - 1 ELSE b.w - 1],
          v   |-> b.buf[b.w],
          err |-> nil]

\* RRead without the test for the empty buffer
RReadUnchecked(b) ==
    IF b.w = 0
    THEN [b |-> [b EXCEPT !.w = b.size - 1], v |-> b.buf[b.size - 1], err |-> nil]
    ELSE [b |-> [b EXCEPT !.w = b.w - 1], v |-> b.buf[b.w - 1], err |-> nil]

RRead(b) ==
    IF b.r = b.w THEN [b |-> b, v |-> Zero, err |-> ErrIsEmpty]
    ELSE IF b.w = 0
         THEN [b |-> [b EXCEPT !.w = b.size - 1], v |-> b.buf[b.size - 1], err |-> nil]
         ELSE [b |-> [b EXCEPT !.w = b.w - 1], v |-> b.buf[b.w - 1], err |-> nil]

Peek(b) ==
    IF b.r = b.w THEN [b |-> b, v |-> Zero, err |-> ErrIsEmpty]
    ELSE [b |-> b, v |-> b.buf[b.r], err |-> nil]

\* RPeek that reads the slot at the write cursor (r.buf[r.w])
RPeekAtCursor(b) ==
    IF b.r = b.w THEN [b |-> b, v |-> Zero, err |-> ErrIsEmpty]
    ELSE [b |-> b, v |-> b.buf[b.w], err |-> nil]

RPeek(b) ==
    IF b.r = b.w THEN [b |-> b, v |-> Zero, err |-> ErrIsEmpty]
    ELSE IF b.w = 0
         THEN [b |-> b, v |-> b.buf[b.size - 1], err |-> nil]
         ELSE [b |-> b, v |-> b.buf[b.w - 1], err |-> nil]

\* the capacity of a grow() that doubles whatever the size
growSizeDoubles(size) ==
    size * 2

\* the capacity grow() allocates
growSize(size) ==
    IF size < growThreshold THEN size * 2 ELSE size + (size \div 4)

\* grow with a single copy(buf, r.buf): the head span stays in front of the tail span
growPlainCopy(b) ==
    LET size == growSize(b.size)
        buf  == [i \in 0 .. size - 1 |-> IF i < b.size THEN b.buf[i] ELSE Zero]
    IN  [b EXCEPT !.r = 0, !.w = b.size, !.size = size, !.buf = buf]

grow(b) ==
    LET size == growSize(b.size)
        tail == b.size - b.r
        buf  == [i \in 0 .. size - 1 |->
                    IF i < tail THEN b.buf[b.r + i]
                    ELSE IF i < b.size THEN b.buf[i - tail]
                    ELSE Zero]
    IN  [b EXCEPT !.r = 0, !.w = b.size, !.size = size, !.buf = buf]

\* store that grows already when one free slot is left
storeGrowsEarly(b, v) ==
    LET b1 == [b EXCEPT !.buf[b.w] = v, !.w = b.w + 1]
        b2 == IF b1.w = b1.size THEN [b1 EXCEPT !.w = 0] ELSE b1
        w1 == IF b2.w + 1 = b2.size THEN 0 ELSE b2.w + 1
    IN  IF b2.w = b2.r \/ w1 = b2.r THEN grow(b2) ELSE b2

\* store without the wrap of the write cursor at the end of the slice
storeNoWrap(b, v) ==
    LET b1 == [b EXCEPT !.buf[b.w] = v, !.w = b.w + 1]
    IN  IF b1.w = b1.r THEN grow(b1) ELSE b1

\* r.buf[r.w] = v; r.w++; wrap; grow when the cursors meet
store(b, v) ==
    LET b1 == [b EXCEPT !.buf[b.w] = v, !.w = b.w + 1]
        b2 == IF b1.w = b1.size THEN [b1 EXCEPT !.w = 0] ELSE b1
    IN  IF b2.w = b2.r THEN grow(b2) ELSE b2

\* Write that tests the bound also when maxSize is 0
WriteBoundAlways(b, v) ==
    IF BufLen(b) >= b.maxSize
    THEN [b  |-> [b EXCEPT !.discards = b.discards + 1],
          cb |-> IF b.onDiscards # nil THEN <<v>> ELSE <<>>]
    ELSE [b |-> store(b, v), cb |-> <<>>]

\* Write with the bound tested by > instead of >=
WriteBoundOffByOne(b, v) ==
    IF b.maxSize > 0 /\ BufLen(b) > b.maxSize
    THEN [b  |-> [b EXCEPT !.discards = b.discards + 1],
          cb |-> IF b.onDiscards # nil THEN <<v>> ELSE <<>>]
    ELSE [b |-> store(b, v), cb |-> <<>>]

\* Write that counts a discard only when it has a callback to tell
WriteCountsWithCallback(b, v) ==
    IF b.maxSize > 0 /\ BufLen(b) >= b.maxSize
    THEN IF b.onDiscards # nil
         THEN [b |-> [b EXCEPT !.discards = b.discards + 1], cb |-> <<v>>]
         ELSE [b |-> b, cb |-> <<>>]
    ELSE [b |-> store(b, v), cb |-> <<>>]

\* Write: [b |-> struct after, cb |-> the values the callback was invoked with]
Write(b, v) ==
    IF b.maxSize > 0 /\ BufLen(b) >= b.maxSize
    THEN [b  |-> [b EXCEPT !.discards = b.discards + 1],
          cb |-> IF b.onDiscards # nil THEN <<v>> ELSE <<>>]
    ELSE [b |-> store(b, v), cb |-> <<>>]

\* Overwrite that never drops the oldest element
OverwriteKeepsOldest(b, v) ==
    [b |-> store(b, v), cb |-> <<>>]

\* Overwrite that reports the element it drops like a discarded Write
OverwriteNotifies(b, v) ==
    IF b.maxSize > 0 /\ BufLen(b) >= b.maxSize
    THEN LET r1 == b.r + 1
             b1 == [b EXCEPT !.r = IF r1 = b.size THEN 0 ELSE r1,
                             !.discards = b.discards + 1]
         IN  [b |-> store(b1, v), cb |-> IF b.onDiscards # nil THEN <<b.buf[b.r]>> ELSE <<>>]
    ELSE [b |-> store(b, v), cb |-> <<>>]

\* Overwrite that gives up the newest element instead of the oldest
OverwriteDropsNewest(b, v) ==
    LET b1 == IF b.maxSize > 0 /\ BufLen(b) >= b.maxSize
              THEN [b EXCEPT !.w = IF b.w = 0 THEN b.size - 1 ELSE b.w - 1]
              ELSE b
    IN  [b |-> store(b1, v), cb |-> <<>>]

Overwrite(b, v) ==
    LET b1 == IF b.maxSize > 0 /\ BufLen(b) >= b.maxSize
              THEN LET r1 == b.r + 1
                   IN  [b EXCEPT !.r = IF r1 = b.size THEN 0 ELSE r1]
              ELSE b
    IN  [b |-> store(b1, v), cb |-> <<>>]

\* Reset that also clears the discard counter
ResetClearsDiscards(b) ==
    [b EXCEPT !.r = 0, !.w = 0, !.size = b.initialSize, !.buf = make(b.initialSize),
              !.discards = 0]

\* Reset that rewinds the cursors and keeps the backing slice it has
ResetKeepsStorage(b) ==
    [b EXCEPT !.r = 0, !.w = 0]

Reset(b) ==
    [b EXCEPT !.r = 0, !.w = 0, !.size = b.initialSize, !.buf = make(b.initialSize)]

\* Truncate that reallocates also when the capacity is exactly 2n
TruncateReallocAtDouble(b, n) ==
    IF n <= 0 THEN Reset(b)
    ELSE IF BufLen(b) <= n THEN b
    ELSE IF b.size >= n * 2
    THEN LET data == RPeekN(b, n)
         IN  [b EXCEPT !.r = 0, !.w = n, !.size = n + 1,
                       !.buf = [i \in 0 .. n |-> IF i < Len(data) THEN data[i + 1] ELSE Zero]]
    ELSE IF b.w > b.r
    THEN [b EXCEPT !.r = b.w - b.r - n]
    ELSE LET x == b.w - n
         IN  IF x >= 0 THEN [b EXCEPT !.r = x] ELSE [b EXCEPT !.r = b.size + x]

Truncate(b, n) ==
    IF n <= 0 THEN Reset(b)
    ELSE IF BufLen(b) <= n THEN b
    ELSE IF b.size > n * 2
    THEN LET data == RPeekN(b, n)
         IN  [b EXCEPT !.r = 0, !.w = n, !.size = n + 1,
                       !.buf = [i \in 0 .. n |-> IF i < Len(data) THEN data[i + 1] ELSE Zero]]
    ELSE IF b.w > b.r
    THEN [b EXCEPT !.r = b.w - b.r - n]
    ELSE LET x == b.w - n
         IN  IF x >= 0 THEN [b EXCEPT !.r = x] ELSE [b EXCEPT !.r = b.size + x]

\* SetMaxSize that accepts every n > 0 as a bound
SetMaxSizeNoFloor(b, n) ==
    LET b1 == IF n = 0 THEN [b EXCEPT !.maxSize = 0]
              ELSE IF n > 0 THEN Truncate([b EXCEPT !.maxSize = n], n)
              ELSE b
    IN  [b |-> b1, v |-> b1.maxSize]

\* SetMaxSize: [b |-> struct after, v |-> the value returned]
SetMaxSize(b, n) ==
    LET b1 == IF n = 0 THEN [b EXCEPT !.maxSize = 0]
              ELSE IF n >= minBufferSize THEN Truncate([b EXCEPT !.maxSize = n], n)
              ELSE b
    IN  [b |-> b1, v |-> b1.maxSize]

\* fn is nil or the name of a callback
SetOnDiscards(b, fn) ==
    IF fn # nil THEN [b EXCEPT !.onDiscards = fn] ELSE b

\* -------------------------------------------------------------------- state

VARIABLES
    rb,     \* the RingBufferOf struct
    stored, \* ghost: the elements written and not yet removed, oldest first
    hist,   \* the calls made so far, in order (recorded by the runs of SpecHist)
    op,     \* the call the run ended with (NoCall while the owner goes on calling)
    threads \* the goroutines that share the buffer in the runs of SpecRace

vars == <<rb, stored, hist, op, threads>>

(***************************************************************************)
(* A call is recorded as its name and argument, the struct before it, the *)
(* value and error it returned and the values the discard callback was    *)
(* invoked with during it.                                                 *)
(*                                                                         *)
(* Spec: the owner makes a buffer with one of the three constructors,     *)
(* makes any calls, one after another, and may stop after any of them,    *)
(* the constructor included; op is a history variable holding the call    *)
(* the run stopped with.  Every call of every run is the last call of the run that stops  *)
(* there, so a property of op in all reachable states is a property of    *)
(* every call.                                                             *)
(*                                                                         *)
(* SpecHist: the owner makes at most MaxHist calls of SetOnDiscards,      *)
(* Write, Overwrite, Read and RRead on a new buffer, writing the values   *)
(* 1, 2, 3, ...; hist holds all the calls of the run.                      *)
(***************************************************************************)
NoCall == [name |-> "none"]

\* the single owner of the runs of Spec, SpecHist and SpecFill starts no goroutine
NoThreads == [mode |-> "owner"]

Call(name, arg, ret, err, cb) ==
    [name |-> name, arg |-> arg, pre |-> rb, ret |-> ret, err |-> err, cb |-> cb]

Running == op.name = "none"

\* the sequence s without its last element
Front(s) == SubSeq(s, 1, Len(s) - 1)

(***************************************************************************)
(* The ghost after call c, which left the struct as b: what the contract   *)
(* of each method says it stores and removes.  A Write stores its value   *)
(* unless it counted a discard; an Overwrite first drops the oldest       *)
(* element when the bound is reached; Read removes the oldest and RRead   *)
(* the newest element; Truncate(n) and SetMaxSize(n) keep the newest n;   *)
(* Reset and Truncate(n <= 0) remove everything.                          *)
(***************************************************************************)
Track(s, c, b) ==
    CASE c.name = "Write" ->
            IF b.discards = c.pre.discards THEN Append(s, c.arg) ELSE s
      [] c.name = "Overwrite" ->
            Append(IF c.pre.maxSize > 0 /\ Len(s) >= c.pre.maxSize THEN Tail(s) ELSE s,
                   c.arg)
      [] c.name = "Read" -> IF c.err = nil /\ s # <<>> THEN Tail(s) ELSE s
      [] c.name = "RRead" -> IF c.err = nil /\ s # <<>> THEN Front(s) ELSE s
      [] c.name = "Reset" -> <<>>
      [] c.name = "Truncate" -> IF c.arg <= 0 THEN <<>> ELSE LastN(s, c.arg)
      [] c.name = "SetMaxSize" -> IF c.arg >= minBufferSize THEN LastN(s, c.arg) ELSE s
      [] OTHER -> s

\* the call c has been made and has left the struct as b: the run goes on, or ends with it
Made(c, b) ==
    /\ rb' = b
    /\ stored' = Track(stored, c, b)
    /\ op' \in {NoCall, c}
    /\ UNCHANGED <<hist, threads>>

\* the constructor call name(arg) has returned b: the run goes on, or ends with it
Constructed(name, arg, b) ==
    /\ rb = b
    /\ op \in {NoCall, [name |-> name, arg |-> arg, ret |-> Zero, err |-> nil, cb |-> <<>>]}

Init ==
    /\ \/ \E i \in 0 .. MaxInit :
            \E m \in {<<>>} \cup {<<x>> : x \in 0 .. MaxMax} :
               Constructed("NewOf", <<i, m>>, NewOf(i, m))
       \/ \E i \in 0 .. MaxInit : Constructed("NewFixedOf", i, NewFixedOf(i))
       \/ \E i \in 0 .. MaxInit : Constructed("NewUnboundedOf", i, NewUnboundedOf(i))
    /\ stored = <<>>
    /\ hist = <<>>
    /\ threads = NoThreads

CallWrite(v) ==
    LET res == Write(rb, v)
    IN  /\ Running
        /\ res.b.size <= MaxCap
        /\ res.b.discards <= MaxDiscards
        /\ Made(Call("Write", v, Zero, nil, res.cb), res.b)

CallOverwrite(v) ==
    LET res == Overwrite(rb, v)
    IN  /\ Running
        /\ res.b.size <= MaxCap
        /\ Made(Call("Overwrite", v, Zero, nil, res.cb), res.b)

CallRead ==
    LET res == Read(rb)
    IN  /\ Running
        /\ Made(Call("Read", Zero, res.v, res.err, <<>>), res.b)

CallRRead ==
    LET res == RRead(rb)
    IN  /\ Running
        /\ Made(Call("RRead", Zero, res.v, res.err, <<>>), res.b)

CallPeek ==
    LET res == Peek(rb)
    IN  /\ Running
        /\ Made(Call("Peek", Zero, res.v, res.err, <<>>), res.b)

CallRPeek ==
    LET res == RPeek(rb)
    IN  /\ Running
        /\ Made(Call("RPeek", Zero, res.v, res.err, <<>>), res.b)

\* PeekAll, LPeekN and RPeekN have no statement that assigns to a field of r
CallPeekAll ==
    /\ Running
    /\ Made(Call("PeekAll", Zero, PeekAll(rb), nil, <<>>), rb)

CallLPeekN(n) ==
    /\ Running
    /\ Made(Call("LPeekN", n, LPeekN(rb, n), nil, <<>>), rb)

CallRPeekN(n) ==
    /\ Running
    /\ Made(Call("RPeekN", n, RPeekN(rb, n), nil, <<>>), rb)

CallReset ==
    /\ Running
    /\ Made(Call("Reset", Zero, Zero, nil, <<>>), Reset(rb))

CallTruncate(n) ==
    /\ Running
    /\ Made(Call("Truncate", n, Zero, nil, <<>>), Truncate(rb, n))

CallSetMaxSize(n) ==
    LET res == SetMaxSize(rb, n)
    IN  /\ Running
        /\ Made(Call("SetMaxSize", n, res.v, nil, <<>>), res.b)

CallSetOnDiscards(fn) ==
    /\ Running
    /\ Made(Call("SetOnDiscards", fn, Zero, nil, <<>>), SetOnDiscards(rb, fn))

Next ==
    \/ \E v \in Vals : CallWrite(v)
    \/ \E v \in Vals : CallOverwrite(v)
    \/ CallRead
    \/ CallRRead
    \/ CallPeek
    \/ CallRPeek
    \/ CallPeekAll
    \/ \E n \in -1 .. MaxTrunc : CallLPeekN(n)
    \/ \E n \in -1 .. MaxTrunc : CallRPeekN(n)
    \/ CallReset
    \/ \E n \in -1 .. MaxTrunc : CallTruncate(n)
    \/ \E n \in 0 .. MaxMax : CallSetMaxSize(n)
    \/ \E fn \in {nil, "fn"} : CallSetOnDiscards(fn)

Spec == Init /\ [][Next]_vars

\* ----------------------------------------------------- runs with a history

\* the call c has been made and has left the struct as b, and is added to the history
Logged(c, b) ==
    /\ rb' = b
    /\ stored' = Track(stored, c, b)
    /\ hist' = Append(hist, c)
    /\ UNCHANGED <<op, threads>>

IsWrite(c) == c.name \in {"Write", "Overwrite"}

\* the next value the owner writes: 1, 2, 3, ...
Fresh == Len(SelectSeq(hist, IsWrite)) + 1

HistSetOnDiscards ==
    /\ Len(hist) < MaxHist
    /\ Logged(Call("SetOnDiscards", "fn", Zero, nil, <<>>), SetOnDiscards(rb, "fn"))

HistWrite ==
    LET res == Write(rb, Fresh)
    IN  /\ Len(hist) < MaxHist
        /\ Logged(Call("Write", Fresh, Zero, nil, res.cb), res.b)

HistOverwrite ==
    LET res == Overwrite(rb, Fresh)
    IN  /\ Len(hist) < MaxHist
        /\ Logged(Call("Overwrite", Fresh, Zero, nil, res.cb), res.b)

HistRead ==
    LET res == Read(rb)
    IN  /\ Len(hist) < MaxHist
        /\ Logged(Call("Read", Zero, res.v, res.err, <<>>), res.b)

HistRRead ==
    LET res == RRead(rb)
    IN  /\ Len(hist) < MaxHist
        /\ Logged(Call("RRead", Zero, res.v, res.err, <<>>), res.b)

NextHist ==
    \/ HistSetOnDiscards
    \/ HistWrite
    \/ HistOverwrite
    \/ HistRead
    \/ HistRRead

InitHist == Init /\ Running

SpecHist == InitHist /\ [][NextHist]_vars

\* ------------------------------------------- runs that fill an unbounded buffer

(***************************************************************************)
(* SpecFill: the owner of a new unbounded buffer of one of the initial     *)
(* sizes FillInits writes to it until the backing slice has grown to       *)
(* MaxFillCap slots, and reads from it now and then.                       *)
(***************************************************************************)
InitFill ==
    /\ \E i \in FillInits : rb = NewOf(i, <<>>)
    /\ stored = <<>>
    /\ hist = <<>>
    /\ threads = NoThreads
    /\ op = NoCall

FillWrite ==
    LET res == Write(rb, 1)
    IN  /\ res.b.size <= MaxFillCap
        /\ rb' = res.b
        /\ UNCHANGED <<stored, hist, op, threads>>

FillRead ==
    LET res == Read(rb)
    IN  /\ rb.r < MaxFillRead
        /\ rb' = res.b
        /\ UNCHANGED <<stored, hist, op, threads>>

NextFill ==
    \/ FillWrite
    \/ FillRead

SpecFill == InitFill /\ [][NextFill]_vars

\* ------------------------------------------ two goroutines on one buffer

(***************************************************************************)
(* SpecRace: the owner makes a buffer, writes and reads a few elements,    *)
(* and starts two goroutines that share it.  Goroutine 1 calls Write(1),   *)
(* goroutine 2 calls Write(2) or Read().  In the mode "free" nothing       *)
(* orders their accesses: a step is one load or one store of a field of    *)
(* the struct, as the statements of Write and Read make them (the test of  *)
(* an if with the assignment it guards, the element access with the load   *)
(* of the slice, and grow() are single steps, which leaves out             *)
(* interleavings and adds none).  In the mode "locked" each goroutine      *)
(* holds one mutex from before its call until after it.                    *)
(*                                                                         *)
(* threads.g[p] is goroutine p: its call and argument, its position pc,    *)
(* the value tmp it has loaded, the index idx it stored its value at,      *)
(* whether it took the storing path of Write, and what Read returned.  A   *)
(* goroutine that indexes or slices out of range panics.                   *)
(***************************************************************************)
Goroutines == {1, 2}

\* the value the owner writes before the goroutines start
Prefill == 3

\* b after the owner has written k elements
RECURSIVE Prefilled(_, _)
Prefilled(b, k) == IF k = 0 THEN b ELSE Write(Prefilled(b, k - 1), Prefill).b

\* b after the owner has made k Read calls
RECURSIVE Preread(_, _)
Preread(b, k) == IF k = 0 THEN b ELSE Read(Preread(b, k - 1)).b

InitRace ==
    /\ \E i \in 0 .. MaxInit :
         \E m \in {<<>>} \cup {<<x>> : x \in 0 .. MaxMax} :
            \E k \in 0 .. MaxPrefill :
               \E j \in 0 .. MaxPreread :
                  rb = Preread(Prefilled(NewOf(i, m), k), j)
    /\ stored = <<>>
    /\ hist = <<>>
    /\ op = NoCall
    /\ \E mode \in {"free", "locked"} :
         \E call \in {"Write", "Read"} :
            threads = [mode  |-> mode,
                       lock  |-> 0,
                       start |-> rb,
                       g     |-> [p \in Goroutines |->
                                     [call   |-> IF p = 1 THEN "Write" ELSE call,
                                      arg    |-> p,
                                      pc     |-> "start",
                                      tmp    |-> 0,
                                      idx    |-> -1,
                                      stores |-> FALSE,
                                      ret    |-> Zero,
                                      err    |-> nil]]]

\* goroutine p takes a step that leaves the struct as b and itself as t
Stepped(p, b, t) ==
    /\ rb' = b
    /\ threads' = [threads EXCEPT !.g[p] = t]
    /\ UNCHANGED <<stored, hist, op>>

\* mu.Lock() in the mode "locked"; then the call starts
RaceBegin(p) ==
    /\ threads.g[p].pc = "start"
    /\ threads.mode = "locked" => threads.lock = 0
    /\ rb' = rb
    /\ threads' = [threads EXCEPT
                      !.lock = IF threads.mode = "locked" THEN p ELSE 0,
                      !.g[p].pc = IF threads.g[p].call = "Write" THEN "bound" ELSE "empty"]
    /\ UNCHANGED <<stored, hist, op>>

\* if r.maxSize > 0 && r.Len() >= r.maxSize
RaceBound(p) ==
    /\ threads.g[p].pc = "bound"
    /\ Stepped(p, rb,
               IF rb.maxSize > 0 /\ BufLen(rb) >= rb.maxSize
               THEN [threads.g[p] EXCEPT !.pc = "discardsLoad"]
               ELSE [threads.g[p] EXCEPT !.pc = "slotLoad", !.stores = TRUE])

\* r.discards++ : the load
RaceDiscardsLoad(p) ==
    /\ threads.g[p].pc = "discardsLoad"
    /\ Stepped(p, rb, [threads.g[p] EXCEPT !.pc = "discardsStore", !.tmp = rb.discards])

\* r.discards++ : the store; r.onDiscards is nil; return
RaceDiscardsStore(p) ==
    /\ threads.g[p].pc = "discardsStore"
    /\ Stepped(p, [rb EXCEPT !.discards = threads.g[p].tmp + 1],
               [threads.g[p] EXCEPT !.pc = "return"])

\* r.buf[r.w] = v : the load of r.w
RaceSlotLoad(p) ==
    /\ threads.g[p].pc = "slotLoad"
    /\ Stepped(p, rb, [threads.g[p] EXCEPT !.pc = "slotStore", !.idx = rb.w])

\* r.buf[r.w] = v : the store of the element
RaceSlotStore(p) ==
    /\ threads.g[p].pc = "slotStore"
    /\ IF threads.g[p].idx \in DOMAIN rb.buf
       THEN Stepped(p, [rb EXCEPT !.buf[threads.g[p].idx] = threads.g[p].arg],
                    [threads.g[p] EXCEPT !.pc = "wLoad"])
       ELSE Stepped(p, rb, [threads.g[p] EXCEPT !.pc = "panic"])

\* r.w++ : the load
RaceWLoad(p) ==
    /\ threads.g[p].pc = "wLoad"
    /\ Stepped(p, rb, [threads.g[p] EXCEPT !.pc = "wStore", !.tmp = rb.w])

\* r.w++ : the store
RaceWStore(p) ==
    /\ threads.g[p].pc = "wStore"
    /\ Stepped(p, [rb EXCEPT !.w = threads.g[p].tmp + 1], [threads.g[p] EXCEPT !.pc = "wWrap"])

\* RaceWWrap that leaves the write cursor at r.size
RaceWWrapNever(p) ==
    /\ threads.g[p].pc = "wWrap"
    /\ Stepped(p, rb, [threads.g[p] EXCEPT !.pc = "full"])

\* if r.w == r.size { r.w = 0 }
RaceWWrap(p) ==
    /\ threads.g[p].pc = "wWrap"
    /\ Stepped(p, IF rb.w = rb.size THEN [rb EXCEPT !.w = 0] ELSE rb,
               [threads.g[p] EXCEPT !.pc = "full"])

\* if r.w == r.r { r.grow() }; r.buf[r.r:] panics when r.r is beyond the slice
RaceFull(p) ==
    /\ threads.g[p].pc = "full"
    /\ IF rb.w # rb.r
       THEN Stepped(p, rb, [threads.g[p] EXCEPT !.pc = "return"])
       ELSE IF rb.r > rb.size
            THEN Stepped(p, rb, [threads.g[p] EXCEPT !.pc = "panic"])
            ELSE Stepped(p, grow(rb), [threads.g[p] EXCEPT !.pc = "return"])

\* if r.r == r.w { return t, ErrIsEmpty }
RaceEmpty(p) ==
    /\ threads.g[p].pc = "empty"
    /\ Stepped(p, rb,
               IF rb.r = rb.w
               THEN [threads.g[p] EXCEPT !.pc = "return", !.err = ErrIsEmpty]
               ELSE [threads.g[p] EXCEPT !.pc = "take"])

\* v := r.buf[r.r]
RaceTake(p) ==
    /\ threads.g[p].pc = "take"
    /\ Stepped(p, rb,
               IF rb.r \in DOMAIN rb.buf
               THEN [threads.g[p] EXCEPT !.pc = "rLoad", !.ret = rb.buf[rb.r]]
               ELSE [threads.g[p] EXCEPT !.pc = "panic"])

\* r.r++ : the load
RaceRLoad(p) ==
    /\ threads.g[p].pc = "rLoad"
    /\ Stepped(p, rb, [threads.g[p] EXCEPT !.pc = "rStore", !.tmp = rb.r])

\* r.r++ : the store
RaceRStore(p) ==
    /\ threads.g[p].pc = "rStore"
    /\ Stepped(p, [rb EXCEPT !.r = threads.g[p].tmp + 1], [threads.g[p] EXCEPT !.pc = "rWrap"])

\* if r.r == r.size { r.r = 0 }; return v, nil
RaceRWrap(p) ==
    /\ threads.g[p].pc = "rWrap"
    /\ Stepped(p, IF rb.r = rb.size THEN [rb EXCEPT !.r = 0] ELSE rb,
               [threads.g[p] EXCEPT !.pc = "return"])

\* the call returns; mu.Unlock() in the mode "locked"
RaceReturn(p) ==
    /\ threads.g[p].pc = "return"
    /\ rb' = rb
    /\ threads' = [threads EXCEPT !.lock = 0, !.g[p].pc = "done"]
    /\ UNCHANGED <<stored, hist, op>>

NextRace ==
    \E p \in Goroutines :
       \/ RaceBegin(p)
       \/ RaceBound(p)
       \/ RaceDiscardsLoad(p)
       \/ RaceDiscardsStore(p)
       \/ RaceSlotLoad(p)
       \/ RaceSlotStore(p)
       \/ RaceWLoad(p)
       \/ RaceWStore(p)
       \/ RaceWWrap(p)
       \/ RaceFull(p)
       \/ RaceEmpty(p)
       \/ RaceTake(p)
       \/ RaceRLoad(p)
       \/ RaceRStore(p)
       \/ RaceRWrap(p)
       \/ RaceReturn(p)

SpecRace == InitRace /\ [][NextRace]_vars

\* ------------------------------------------------- runs on a wider buffer

(***************************************************************************)
(* SpecWide: the owner of a new unbounded buffer of up to MaxWideCap slots *)
(* makes any calls of Write, Overwrite, Read, RRead, Truncate, SetMaxSize  *)
(* and Reset.  Every value written is new to the backing slice: one more   *)
(* than the largest value in any of its slots, read or unread.             *)
(***************************************************************************)
RECURSIVE MaxSlot(_, _)
\* the largest value in the slots 0 .. i of the backing slice of b
MaxSlot(b, i) ==
    IF i < 0 THEN Zero
    ELSE LET m == MaxSlot(b, i - 1) IN IF b.buf[i] > m THEN b.buf[i] ELSE m

WideFresh == MaxSlot(rb, rb.size - 1) + 1

InitWide ==
    /\ \E i \in minBufferSize .. MaxWideInit : rb = NewOf(i, <<>>)
    /\ stored = <<>>
    /\ hist = <<>>
    /\ op = NoCall
    /\ threads = NoThreads

WideWrite ==
    /\ WideFresh <= MaxWideVal
    /\ Write(rb, WideFresh).b.size <= MaxWideCap
    /\ Write(rb, WideFresh).b.discards <= MaxDiscards
    /\ rb' = Write(rb, WideFresh).b
    /\ UNCHANGED <<stored, hist, op, threads>>

WideOverwrite ==
    /\ WideFresh <= MaxWideVal
    /\ Overwrite(rb, WideFresh).b.size <= MaxWideCap
    /\ rb' = Overwrite(rb, WideFresh).b
    /\ UNCHANGED <<stored, hist, op, threads>>

WideRead ==
    /\ rb' = Read(rb).b
    /\ UNCHANGED <<stored, hist, op, threads>>

WideRRead ==
    /\ rb' = RRead(rb).b
    /\ UNCHANGED <<stored, hist, op, threads>>

WideTruncate(n) ==
    /\ rb' = Truncate(rb, n)
    /\ UNCHANGED <<stored, hist, op, threads>>

WideSetMaxSize(n) ==
    /\ rb' = SetMaxSize(rb, n).b
    /\ UNCHANGED <<stored, hist, op, threads>>

WideReset ==
    /\ rb' = Reset(rb)
    /\ UNCHANGED <<stored, hist, op, threads>>

NextWide ==
    \/ WideWrite
    \/ WideOverwrite
    \/ WideRead
    \/ WideRRead
    \/ \E n \in 0 .. MaxWideTrunc : WideTruncate(n)
    \/ \E n \in 0 .. MaxWideTrunc : WideSetMaxSize(n)
    \/ WideReset

SpecWide == InitWide /\ [][NextWide]_vars

\* ------------------------------------------------------------------- claims

\* the arguments and the returned values of a sequence of calls
ArgsOf(h) == [i \in 1 .. Len(h) |-> h[i].arg]

RetsOf(h) == [i \in 1 .. Len(h) |-> h[i].ret]

\* the values the discard callback was invoked with during the calls of h, in order
RECURSIVE CbLog(_)
CbLog(h) == IF h = <<>> THEN <<>> ELSE CbLog(Front(h)) \o Last(h).cb

\* the bound is reached in b: a Write is discarded, an Overwrite drops the oldest
BoundReached(b) == b.maxSize > 0 /\ BufLen(b) >= b.maxSize

\* C1: whenever a bound is set, the length is within it: MaxSize() > 0 implies
\* Len() <= MaxSize(), in every state between two calls.
C1_LenWithinMaxSize ==
    rb.maxSize > 0 => BufLen(rb) <= rb.maxSize

\* C2: Truncate(n) with n > 0 changes nothing when Len() <= n, and otherwise
\* leaves exactly the last n elements of PeekAll() as they were before the call.
C2_TruncateKeepsLastN ==
    (op.name = "Truncate" /\ op.arg > 0) =>
        IF BufLen(op.pre) <= op.arg
        THEN rb = op.pre
        ELSE /\ PeekAll(rb) = LastN(PeekAll(op.pre), op.arg)
             /\ BufLen(rb) = op.arg

IsWriteCall(c) == c.name = "Write"

IsGoodRead(c) == c.name = "Read" /\ c.err = nil

\* C3: FIFO. In a run of Write and Read calls in which no Write is discarded,
\* the values the successful Reads returned are the first values written, in
\* the order they were written, and the buffer holds the rest in that order.
C3_Fifo ==
    LET onlyWR    == \A i \in DOMAIN hist : hist[i].name \in {"Write", "Read"}
        noDiscard == \A i \in DOMAIN hist :
                        hist[i].name = "Write" => ~BoundReached(hist[i].pre)
        written   == ArgsOf(SelectSeq(hist, IsWriteCall))
        readOut   == RetsOf(SelectSeq(hist, IsGoodRead))
    IN  (onlyWR /\ noDiscard) =>
            /\ Len(readOut) <= Len(written)
            /\ readOut = FirstN(written, Len(readOut))
            /\ readOut \o PeekAll(rb) = written

\* two values have been read back after a growth, and the write cursor has wrapped
C3_Witness ==
    /\ \A i \in DOMAIN hist : hist[i].name \in {"Write", "Read"}
    /\ \A i \in DOMAIN hist : hist[i].name = "Write" => ~BoundReached(hist[i].pre)
    /\ Len(SelectSeq(hist, IsGoodRead)) >= 2
    /\ rb.size > rb.initialSize
    /\ rb.w < rb.r

\* C4: a Write on a buffer whose bound is reached leaves the cursors, the
\* capacity, the bound and the contents alone, adds 1 to the discard counter
\* and invokes the callback, if one is installed, once with the value; any
\* other Write appends the value and neither counts nor reports a discard.
C4_WriteEffect ==
    op.name = "Write" =>
        IF op.pre.maxSize > 0 /\ BufLen(op.pre) >= op.pre.maxSize
        THEN /\ rb.r = op.pre.r
             /\ rb.w = op.pre.w
             /\ rb.size = op.pre.size
             /\ rb.maxSize = op.pre.maxSize
             /\ PeekAll(rb) = PeekAll(op.pre)
             /\ rb.discards = op.pre.discards + 1
             /\ op.cb = IF op.pre.onDiscards # nil THEN <<op.arg>> ELSE <<>>
        ELSE /\ PeekAll(rb) = Append(PeekAll(op.pre), op.arg)
             /\ BufLen(rb) = BufLen(op.pre) + 1
             /\ rb.discards = op.pre.discards
             /\ op.cb = <<>>

\* a Write was discarded on a buffer with a callback, which was told the value
C4_Witness ==
    /\ op.name = "Write"
    /\ op.pre.maxSize > 0
    /\ BufLen(op.pre) >= op.pre.maxSize
    /\ op.pre.onDiscards # nil
    /\ op.cb = <<op.arg>>
    /\ rb.discards = op.pre.discards + 1

\* C5: bounded discard. On a new buffer with bound m >= 2, after m + k Writes
\* (k > 0) and no other call but an initial SetOnDiscards: Len() = m,
\* Discards() = k, PeekAll() is the first m values written, and the callback,
\* if it was installed, was invoked k times, with the last k values in order.
C5_BoundedDiscard ==
    LET n       == Len(hist)
        first   == IF n > 0 /\ hist[1].name = "SetOnDiscards" THEN 2 ELSE 1
        written == ArgsOf(SubSeq(hist, first, n))
        m       == rb.maxSize
        k       == Len(written) - m
    IN  ((\A i \in first .. n : hist[i].name = "Write") /\ m >= 2 /\ k > 0) =>
            /\ BufLen(rb) = m
            /\ rb.discards = k
            /\ PeekAll(rb) = FirstN(written, m)
            /\ CbLog(hist) = IF first = 2 THEN LastN(written, k) ELSE <<>>

\* the callback was installed and told of two discards, on a buffer that had to
\* grow to hold its bound
C5_Witness ==
    /\ Len(hist) >= 2
    /\ hist[1].name = "SetOnDiscards"
    /\ \A i \in 2 .. Len(hist) : hist[i].name = "Write"
    /\ rb.maxSize >= 2
    /\ Len(hist) - 1 = rb.maxSize + 2
    /\ Len(CbLog(hist)) = 2
    /\ rb.initialSize < rb.maxSize

\* C6: Overwrite. On a new buffer with bound m >= 2, after m + k Overwrites
\* (k >= 0) and no other call, PeekAll() is the last m values written, oldest
\* first; and an Overwrite on a buffer with Len() = MaxSize() > 0 removes the
\* oldest element, appends the value and leaves Len() as it was.
C6_Overwrite ==
    /\ LET m == rb.maxSize
       IN  ((\A i \in DOMAIN hist : hist[i].name = "Overwrite") /\ m >= 2 /\ Len(hist) >= m) =>
                PeekAll(rb) = LastN(ArgsOf(hist), m)
    /\ (hist # <<>> /\ Last(hist).name = "Overwrite") =>
          LET c == Last(hist)
          IN  (c.pre.maxSize > 0 /\ BufLen(c.pre) = c.pre.maxSize) =>
                 /\ PeekAll(rb) = Append(Tail(PeekAll(c.pre)), c.arg)
                 /\ BufLen(rb) = BufLen(c.pre)

\* m + 3 Overwrites have been made on a new buffer with bound m, and the write
\* cursor has wrapped
C6_Witness ==
    /\ \A i \in DOMAIN hist : hist[i].name = "Overwrite"
    /\ rb.maxSize >= 2
    /\ Len(hist) = rb.maxSize + 3
    /\ rb.w < rb.r

\* C7: an Overwrite never changes the discard counter and never invokes the
\* callback, also when it drops the oldest element; only a Write invokes it.
C7_OverwriteSilent ==
    /\ op.name = "Overwrite" => (rb.discards = op.pre.discards /\ op.cb = <<>>)
    /\ (op.name # "none" /\ op.cb # <<>>) => op.name = "Write"

\* an Overwrite dropped the oldest element of a buffer that has a callback
C7_Witness ==
    /\ op.name = "Overwrite"
    /\ op.pre.maxSize > 0
    /\ BufLen(op.pre) >= op.pre.maxSize
    /\ op.pre.onDiscards # nil
    /\ PeekAll(rb) = Append(Tail(PeekAll(op.pre)), op.arg)

\* C8: a Write or Overwrite that grows the backing slice leaves PeekAll() as
\* it was, followed by the new value, with a strictly larger capacity, the
\* read cursor at 0 and the write cursor at the old capacity.
C8_GrowthPreserves ==
    (op.name \in {"Write", "Overwrite"} /\ rb.size # op.pre.size) =>
        /\ PeekAll(rb) = Append(PeekAll(op.pre), op.arg)
        /\ rb.size > op.pre.size
        /\ rb.r = 0
        /\ rb.w = op.pre.size

\* a Write grew a buffer whose contents were wrapped around the end of the slice
C8_Witness ==
    /\ op.name = "Write"
    /\ rb.size > op.pre.size
    /\ op.pre.r > 0
    /\ op.pre.w < op.pre.r
    /\ Len(PeekAll(rb)) = op.pre.size

\* C9: the buffer is never full. The elements stored (written and not yet
\* removed: the ghost) are at most Capacity() - 1, the cursors are equal
\* exactly when nothing is stored, and a Write or Overwrite that stores its
\* value never returns with the cursors equal.
C9_NeverFull ==
    /\ Len(stored) <= rb.size - 1
    /\ (rb.r = rb.w) <=> (stored = <<>>)
    /\ (op.name \in {"Write", "Overwrite"} /\ rb.discards = op.pre.discards) => rb.r # rb.w

\* C10: Read, RRead, Peek and RPeek return ErrIsEmpty and the zero value
\* exactly when the cursors are equal, and then change no field; on a buffer
\* that is not empty they return no error.  No other call returns an error.
C10_EmptyError ==
    /\ op.name \in {"Read", "RRead", "Peek", "RPeek"} =>
          IF op.pre.r = op.pre.w
          THEN op.err = ErrIsEmpty /\ op.ret = Zero /\ rb = op.pre
          ELSE op.err = nil
    /\ op.name \in {"Write", "Overwrite", "Reset", "Truncate", "SetMaxSize", "SetOnDiscards"} =>
          op.err = nil

\* an RRead found the buffer empty with the cursors away from 0 and old values
\* still in the slots
C10_Witness ==
    /\ op.name = "RRead"
    /\ op.err = ErrIsEmpty
    /\ op.pre.r > 0
    /\ op.pre.buf[op.pre.r - 1] # Zero
    /\ rb = op.pre

\* the sequence s in reverse order
Reverse(s) == [i \in 1 .. Len(s) |-> s[Len(s) + 1 - i]]

IsGoodRRead(c) == c.name = "RRead" /\ c.err = nil

\* the calls hist[j], ..., hist[Len(hist)] are all RReads that returned an element
RReadsFrom(j) == \A k \in j .. Len(hist) : IsGoodRRead(hist[k])

\* C11: on a non-empty buffer RPeek() returns the newest element (the last of
\* PeekAll()) and changes nothing, and RRead() returns the same element and
\* removes it, also when the write cursor is 0 and steps back to Capacity()-1;
\* successive RReads return the stored elements newest first, and the read
\* cursor stays where it was.
C11_Lifo ==
    /\ ~IsEmpty(rb) =>
          /\ RPeek(rb) = [b |-> rb, v |-> Last(PeekAll(rb)), err |-> nil]
          /\ RRead(rb).v = RPeek(rb).v
    /\ \A j \in 1 .. Len(hist) :
          RReadsFrom(j) =>
             LET before == PeekAll(hist[j].pre)
                 n      == Len(hist) - j + 1
             IN  /\ RetsOf(SubSeq(hist, j, Len(hist))) = Reverse(LastN(before, n))
                 /\ PeekAll(rb) = SubSeq(before, 1, Len(before) - n)
                 /\ rb.r = hist[j].pre.r
                 /\ hist[Len(hist)].pre.w = 0 => rb.w = Capacity(rb) - 1

\* two RReads in a row, the first made with the write cursor at 0, after a Read
C11_Witness ==
    /\ Len(hist) >= 2
    /\ RReadsFrom(Len(hist) - 1)
    /\ hist[Len(hist) - 1].pre.w = 0
    /\ hist[Len(hist) - 1].pre.r > 0

Constructors == {"NewOf", "NewFixedOf", "NewUnboundedOf"}

\* the run has ended with a call of a method (op.pre is the struct before it)
MethodCalled == op.name \notin Constructors \cup {"none"}

Count(h, P(_)) == Len(SelectSeq(h, P))

IsGoodPop(c) == c.name \in {"Read", "RRead"} /\ c.err = nil

\* an Overwrite made with the bound reached: it drops the oldest element
IsDroppingOverwrite(c) == c.name = "Overwrite" /\ BoundReached(c.pre)

\* C13 as stated: Len() is the number of Write and Overwrite calls so far minus
\* the successful Read and RRead calls minus Discards().
C13_LenFormula ==
    BufLen(rb) = Count(hist, IsWrite) - Count(hist, IsGoodPop) - Discards(rb)

\* C13, amended: after any sequence of Write, Overwrite, Read and RRead calls
\* on a new buffer, Len() is the number of Write and Overwrite calls minus the
\* successful Read and RRead calls minus Discards() minus the number of
\* Overwrite calls made with the bound reached (each drops the oldest element
\* without counting a discard).
C13_LenFormulaWithDrops ==
    BufLen(rb) = Count(hist, IsWrite) - Count(hist, IsGoodPop) - Discards(rb)
                    - Count(hist, IsDroppingOverwrite)

\* a run with a discarded Write, a dropping Overwrite and a removed element,
\* that leaves the contents wrapped
C13_Witness ==
    /\ Discards(rb) > 0
    /\ Count(hist, IsDroppingOverwrite) > 0
    /\ Count(hist, IsGoodPop) > 0
    /\ rb.w < rb.r

\* the initialSize argument of the constructor call c
InitialSizeArg(c) == IF c.name = "NewOf" THEN c.arg[1] ELSE c.arg

\* C14: the initial capacity is the constructor's initialSize raised to at
\* least 2 and no call changes it; Reset(), from any state, leaves Capacity()
\* equal to it, Len() == 0, IsEmpty() true and both cursors at 0; Truncate(n)
\* with n <= 0 leaves the struct exactly as Reset() does.
C14_Reset ==
    /\ op.name \in Constructors =>
          rb.initialSize = IF InitialSizeArg(op) < 2 THEN 2 ELSE InitialSizeArg(op)
    /\ MethodCalled => rb.initialSize = op.pre.initialSize
    /\ op.name = "Reset" =>
          /\ Capacity(rb) = op.pre.initialSize
          /\ DOMAIN rb.buf = 0 .. Capacity(rb) - 1
          /\ BufLen(rb) = 0
          /\ IsEmpty(rb)
          /\ PeekAll(rb) = <<>>
          /\ rb.r = 0
          /\ rb.w = 0
    /\ (op.name = "Truncate" /\ op.arg <= 0) => rb = Reset(op.pre)

\* a Reset of a buffer truncated below its initial capacity, with wrapped contents
C14_Witness ==
    /\ op.name = "Reset"
    /\ Capacity(op.pre) < op.pre.initialSize
    /\ op.pre.w < op.pre.r

Min(a, b) == IF a <= b THEN a ELSE b

\* the slots of b from the read cursor on, one per stored element, oldest first
InOrder(b) == [i \in 1 .. BufLen(b) |-> b.buf[(b.r + i - 1) % b.size]]

\* C15: PeekAll, LPeekN, RPeekN, Peek and RPeek leave every field of the
\* struct as it was.  PeekAll() returns the Len() stored elements from the
\* oldest to the newest (nil when empty), LPeekN(n) the first min(n, Len()) of
\* them and RPeekN(n) the last min(n, Len()) of them, both nil for n <= 0,
\* wherever the cursors are.
C15_Peeks ==
    /\ op.name \in {"PeekAll", "LPeekN", "RPeekN", "Peek", "RPeek"} => rb = op.pre
    /\ op.name = "PeekAll" =>
          /\ op.ret = InOrder(op.pre)
          /\ Len(op.ret) = BufLen(op.pre)
          /\ IsEmpty(op.pre) => op.ret = <<>>
    /\ op.name = "LPeekN" =>
          op.ret = IF op.arg <= 0 THEN <<>>
                   ELSE SubSeq(InOrder(op.pre), 1, Min(op.arg, BufLen(op.pre)))
    /\ op.name = "RPeekN" =>
          op.ret = IF op.arg <= 0 THEN <<>>
                   ELSE SubSeq(InOrder(op.pre),
                               BufLen(op.pre) - Min(op.arg, BufLen(op.pre)) + 1,
                               BufLen(op.pre))

\* RPeekN(n) of wrapped contents, returning fewer than all the elements, some
\* from the end of the backing slice and some from its start
C15_Witness ==
    /\ op.name = "RPeekN"
    /\ op.pre.w < op.pre.r
    /\ op.pre.w > 0
    /\ op.arg > op.pre.w
    /\ op.arg < BufLen(op.pre)
    /\ Len(op.ret) = op.arg

\* C16: SetMaxSize(0) sets MaxSize() to 0 and leaves the cursors, the capacity
\* and the contents as they were; SetMaxSize(n) with 0 < n < 2 changes
\* nothing; the value SetMaxSize returns is MaxSize() after the call.
C16_SetMaxSize ==
    op.name = "SetMaxSize" =>
       /\ op.ret = MaxSize(rb)
       /\ op.arg = 0 => rb = [op.pre EXCEPT !.maxSize = 0]
       /\ (0 < op.arg /\ op.arg < minBufferSize) => rb = op.pre

\* SetMaxSize(1) on a bounded buffer that holds more than one element
C16_Witness ==
    /\ op.name = "SetMaxSize"
    /\ op.arg = 1
    /\ MaxSize(op.pre) > 0
    /\ BufLen(op.pre) > 1
    /\ op.ret = MaxSize(op.pre)

\* C17: NewFixedOf(initialSize) gives a buffer whose MaxSize() is its initial
\* size, for every initialSize, also one below the floor 2 (read either as the
\* argument passed or as the initial capacity it is raised to);
\* NewUnboundedOf(initialSize) gives MaxSize() == 0.
C17_ConstructorMaxSize ==
    /\ op.name = "NewFixedOf" => MaxSize(rb) \in {op.arg, rb.initialSize}
    /\ op.name = "NewUnboundedOf" => MaxSize(rb) = 0

\* the capacity that follows capacity c in the growth schedule
NextCapacity(c) == IF c < 1024 THEN 2 * c ELSE c + (c \div 4)

\* the first capacity of the schedule starting at c that holds n elements
\* without growing
RECURSIVE CapacityFor(_, _)
CapacityFor(c, n) == IF n <= c - 1 THEN c ELSE CapacityFor(NextCapacity(c), n)

\* a step that stores one more element
StoresOne == BufLen(rb') = BufLen(rb) + 1

\* a step grows the backing slice exactly when it stores an element that makes
\* the count equal to the capacity, and then to the next capacity of the schedule
GrowthStep ==
    /\ Capacity(rb') # Capacity(rb) <=> (StoresOne /\ BufLen(rb') = Capacity(rb))
    /\ Capacity(rb') # Capacity(rb) => Capacity(rb') = NextCapacity(Capacity(rb))
    /\ (StoresOne /\ BufLen(rb') <= Capacity(rb) - 1) => Capacity(rb') = Capacity(rb)

\* the capacity of a buffer nothing was read from since it was made or last grew
FilledCapacity ==
    rb.r = 0 =>
       /\ Capacity(rb) = CapacityFor(rb.initialSize, BufLen(rb))
       /\ (rb.initialSize = 10 /\ BufLen(rb) = 9) => Capacity(rb) = 10
       /\ (rb.initialSize = 10 /\ BufLen(rb) = 10) => Capacity(rb) = 20
       /\ (rb.initialSize = 10 /\ BufLen(rb) = 100) => Capacity(rb) = 160
       /\ (rb.initialSize = 2 /\ BufLen(rb) \in {9, 10}) => Capacity(rb) = 16
       /\ (rb.initialSize = 2 /\ BufLen(rb) = 100) => Capacity(rb) = 128

\* C18: the backing slice grows exactly when a stored write makes the element
\* count equal to Capacity() (capacity c holds c - 1 elements without growing);
\* the new capacity is 2c for c < 1024 and c + floor(c/4) from 1024 on.  Initial
\* size 10 gives 20 on the 10th element and 160 at 100 elements; initial size 1
\* (raised to 2) gives 16 at 9 and 10 elements and 128 at 100.
C18_GrowthSchedule ==
    /\ []FilledCapacity
    /\ [][GrowthStep]_vars

\* the buffer made with initial size 1 has grown from 1024 to 1280 slots
C18_Witness ==
    /\ rb.initialSize = 2
    /\ Capacity(rb) = 1280
    /\ BufLen(rb) >= 1024

\* C19: both cursors are valid indexes of the backing slice, 0 <= r < Capacity()
\* and 0 <= w < Capacity(), and Capacity() is the length of the backing slice,
\* in every state between two calls.
C19_CursorsInRange ==
    /\ 0 <= rb.r
    /\ rb.r < Capacity(rb)
    /\ 0 <= rb.w
    /\ rb.w < Capacity(rb)
    /\ DOMAIN rb.buf = 0 .. Capacity(rb) - 1

\* a Write into the last slot that wrapped the write cursor to 0 without growing
C19_Witness ==
    /\ op.name = "Write"
    /\ op.pre.w = Capacity(op.pre) - 1
    /\ rb.w = 0
    /\ rb.r > 0
    /\ Capacity(rb) = Capacity(op.pre)

\* C20: MaxSize() is 0 after NewUnboundedOf, after NewOf with no bound or a
\* bound below 2 and after SetMaxSize(0); while it is 0 every Write and every
\* Overwrite stores its value: Len() rises by one and the value is the newest
\* element, Discards() stays as it was and the callback is not invoked.
C20_UnboundedStores ==
    /\ op.name = "NewUnboundedOf" => MaxSize(rb) = 0
    /\ (op.name = "NewOf" /\ (op.arg[2] = <<>> \/ op.arg[2][1] < 2)) => MaxSize(rb) = 0
    /\ (op.name = "SetMaxSize" /\ op.arg = 0) => MaxSize(rb) = 0
    /\ (op.name \in {"Write", "Overwrite"} /\ MaxSize(op.pre) = 0) =>
          /\ BufLen(rb) = BufLen(op.pre) + 1
          /\ PeekAll(rb) = Append(PeekAll(op.pre), op.arg)
          /\ Discards(rb) = Discards(op.pre)
          /\ op.cb = <<>>
          /\ MaxSize(rb) = 0

\* a Write that grows a buffer with a callback whose bound was lifted after a
\* discard
C20_Witness ==
    /\ op.name = "Write"
    /\ MaxSize(op.pre) = 0
    /\ Discards(op.pre) > 0
    /\ op.pre.onDiscards # nil
    /\ Capacity(rb) > Capacity(op.pre)
    /\ BufLen(rb) = BufLen(op.pre) + 1

\* the struct and the returned values when goroutine p's call is made as one
\* step on b
AtomicCall(b, p) ==
    IF threads.g[p].call = "Write"
    THEN [b |-> Write(b, threads.g[p].arg).b, ret |-> Zero, err |-> nil]
    ELSE LET res == Read(b) IN [b |-> res.b, ret |-> res.v, err |-> res.err]

\* the outcome of goroutine p's call followed by goroutine q's call
SerialOutcome(p, q) ==
    LET first  == AtomicCall(threads.start, p)
        second == AtomicCall(first.b, q)
    IN  [b   |-> second.b,
         out |-> [x \in Goroutines |->
                     IF x = p THEN <<first.ret, first.err>> ELSE <<second.ret, second.err>>]]

\* the outcome of the run
RaceOutcome ==
    [b |-> rb, out |-> [x \in Goroutines |-> <<threads.g[x].ret, threads.g[x].err>>]]

BothReturned == \A p \in Goroutines : threads.g[p].pc = "done"

CursorsValid == rb.r \in 0 .. rb.size - 1 /\ rb.w \in 0 .. rb.size - 1

\* goroutine p's Write went the storing way and returned
WroteValue(p) ==
    threads.g[p].call = "Write" /\ threads.g[p].stores /\ threads.g[p].pc = "done"

\* goroutine p's Read returned an element
ReadValue(p) ==
    threads.g[p].call = "Read" /\ threads.g[p].err = nil /\ threads.g[p].pc = "done"

\* a value a Write stored is neither in the buffer nor was it returned by the Read
ValueLost ==
    \E p \in Goroutines :
       /\ WroteValue(p)
       /\ \A i \in 1 .. Len(PeekAll(rb)) : PeekAll(rb)[i] # threads.g[p].arg
       /\ \A q \in Goroutines : ReadValue(q) => threads.g[q].ret # threads.g[p].arg

\* Len() is not the number of elements before plus those stored minus those read
LenMiscounted ==
    BufLen(rb) # BufLen(threads.start)
                    + Cardinality({p \in Goroutines : WroteValue(p)})
                    - Cardinality({p \in Goroutines : ReadValue(p)})

\* C21: when each of two concurrent calls (Write and Write, or Write and Read)
\* runs under one external lock, no goroutine panics and, once both have
\* returned, the struct and the returned values are those of the two calls made
\* one after the other in one of the two orders: no written value is lost and
\* Len() counts the stored values.  (That the unlocked calls do reach a state
\* with a lost value is the witness.)
C21_LockedIsSerial ==
    threads.mode = "locked" =>
       /\ \A p \in Goroutines : threads.g[p].pc # "panic"
       /\ BothReturned =>
             /\ RaceOutcome \in {SerialOutcome(1, 2), SerialOutcome(2, 1)}
             /\ CursorsValid
             /\ ~ValueLost
             /\ ~LenMiscounted

\* without a lock: both Writes have returned after storing at the same index,
\* and one of the two values is lost
C21_Witness ==
    /\ threads.mode = "free"
    /\ BothReturned
    /\ WroteValue(1)
    /\ WroteValue(2)
    /\ threads.g[1].idx = threads.g[2].idx
    /\ CursorsValid
    /\ ValueLost

IsRunOf(s, t) ==
    \E k \in 0 .. Len(t) - Len(s) : \A i \in 1 .. Len(s) : s[i] = t[k + i]

\* a step that is a call of Read, RRead, Truncate, SetMaxSize or Reset
RemovingCall ==
    \/ WideRead
    \/ WideRRead
    \/ \E n \in 0 .. MaxWideTrunc : WideTruncate(n)
    \/ \E n \in 0 .. MaxWideTrunc : WideSetMaxSize(n)
    \/ WideReset

\* C23: no resurrection: a call of Read, RRead, Truncate, SetMaxSize or Reset
\* never increases Len(), and what PeekAll() lists after it was listed, in the
\* same order and side by side, before it; only Write and Overwrite add an
\* element.
C23_NoResurrection ==
    [][RemovingCall =>
          /\ BufLen(rb') <= BufLen(rb)
          /\ IsRunOf(PeekAll(rb'), PeekAll(rb))]_vars

Max(a, b) == IF a >= b THEN a ELSE b

\* C24: while MaxSize() == m > 0, a Write or Overwrite changes Capacity() only
\* if Capacity() <= m before the call, and Read and RRead never change it; so
\* none of the four calls changes MaxSize() or takes Capacity() beyond the
\* larger of its value before the call and 2m (m < 1024).
C24_BoundedMemory ==
    (op.name \in {"Write", "Overwrite", "Read", "RRead"} /\ MaxSize(op.pre) > 0) =>
       /\ MaxSize(rb) = MaxSize(op.pre)
       /\ Capacity(rb) # Capacity(op.pre) =>
             /\ op.name \in {"Write", "Overwrite"}
             /\ Capacity(op.pre) <= MaxSize(op.pre)
       /\ Capacity(op.pre) > MaxSize(op.pre) => Capacity(rb) = Capacity(op.pre)
       /\ Capacity(rb) <= Max(Capacity(op.pre), 2 * MaxSize(op.pre))

\* a Write that grows a bounded buffer of m slots to 2m slots
C24_Witness ==
    /\ op.name = "Write"
    /\ MaxSize(op.pre) > 0
    /\ Capacity(op.pre) = MaxSize(op.pre)
    /\ Capacity(rb) = 2 * MaxSize(rb)

\* the abstract bounded deque: the sequence after the call named name with
\* argument v on the sequence s under the bound m (0: no bound)
DequeStep(s, m, name, v) ==
    CASE name = "Write" -> IF m > 0 /\ Len(s) >= m THEN s ELSE Append(s, v)
      [] name = "Overwrite" -> Append(IF m > 0 /\ Len(s) >= m THEN Tail(s) ELSE s, v)
      [] name = "Read" -> IF s = <<>> THEN s ELSE Tail(s)
      [] name = "RRead" -> IF s = <<>> THEN s ELSE Front(s)
      [] name = "Reset" -> <<>>

\* C25: PeekAll() refines the abstract bounded deque: it is empty after
\* construction, and every Write, Overwrite, Read, RRead and Reset takes it to
\* the sequence the deque's step gives (Write appends unless the bound is
\* reached, Overwrite first drops the head when it is, Read removes and returns
\* the head, RRead the last element, Reset empties), with Len() its length.
C25_RefinesDeque ==
    /\ op.name \in Constructors => (PeekAll(rb) = <<>> /\ BufLen(rb) = 0)
    /\ op.name \in {"Write", "Overwrite", "Read", "RRead", "Reset"} =>
          LET s == PeekAll(op.pre)
              t == DequeStep(s, MaxSize(op.pre), op.name, op.arg)
          IN  /\ PeekAll(rb) = t
              /\ BufLen(rb) = Len(t)
              /\ MaxSize(rb) = MaxSize(op.pre)
              /\ (op.name = "Read" /\ s # <<>>) => (op.ret = Head(s) /\ op.err = nil)
              /\ (op.name = "RRead" /\ s # <<>>) => (op.ret = Last(s) /\ op.err = nil)
              /\ (op.name \in {"Read", "RRead"} /\ s = <<>>) => op.err = ErrIsEmpty

\* an Overwrite with the bound reached and the contents wrapped
C25_Witness ==
    /\ op.name = "Overwrite"
    /\ MaxSize(op.pre) > 0
    /\ BufLen(op.pre) = MaxSize(op.pre)
    /\ op.pre.w < op.pre.r
    /\ PeekAll(rb) = Append(Tail(PeekAll(op.pre)), op.arg)

\* the struct after the call hist[j]
StructAfter(j) == IF j < Len(hist) THEN hist[j + 1].pre ELSE rb

\* C26: a Write(v) that is not discarded (MaxSize() == 0 or Len() < MaxSize())
\* followed at once by RRead(): the RRead returns v and no error, and PeekAll(),
\* Len() and Discards() are as before the Write, also when the Write grew the
\* backing slice; after a discarded Write the RRead returns the element that
\* was the newest before the Write.
C26_WriteRReadRoundTrip ==
    \A j \in 1 .. Len(hist) - 1 :
       (hist[j].name = "Write" /\ hist[j + 1].name = "RRead") =>
          LET before == hist[j].pre
              after  == StructAfter(j + 1)
          IN  IF ~BoundReached(before)
              THEN /\ hist[j + 1].ret = hist[j].arg
                   /\ hist[j + 1].err = nil
                   /\ PeekAll(after) = PeekAll(before)
                   /\ BufLen(after) = BufLen(before)
                   /\ Discards(after) = Discards(before)
              ELSE /\ hist[j + 1].ret = Last(PeekAll(before))
                   /\ hist[j + 1].err = nil

\* a run that ends with a Write that grew a buffer with wrapped contents and an
\* RRead that took the value back
C26_Witness ==
    /\ Len(hist) >= 2
    /\ hist[Len(hist) - 1].name = "Write"
    /\ hist[Len(hist)].name = "RRead"
    /\ hist[Len(hist) - 1].pre.r > 0
    /\ Capacity(hist[Len(hist)].pre) > Capacity(hist[Len(hist) - 1].pre)
    /\ hist[Len(hist)].ret = hist[Len(hist) - 1].arg
    /\ PeekAll(rb) = PeekAll(hist[Len(hist) - 1].pre)

\* C27: Discards() never decreases; it changes only in a Write made with the
\* bound reached, which adds exactly 1 and stores nothing; Reset, Truncate,
\* SetMaxSize, Overwrite, Read and RRead leave it as it was, Reset leaves
\* MaxSize() and the callback as they were too, and SetOnDiscards(nil) changes
\* nothing, so an installed callback stays.
C27_DiscardsFrame ==
    MethodCalled =>
       /\ Discards(rb) >= Discards(op.pre)
       /\ Discards(rb) # Discards(op.pre) =>
             /\ op.name = "Write"
             /\ BoundReached(op.pre)
       /\ (op.name = "Write" /\ BoundReached(op.pre)) =>
             /\ Discards(rb) = Discards(op.pre) + 1
             /\ rb = [op.pre EXCEPT !.discards = Discards(op.pre) + 1]
       /\ op.name \in {"Reset", "Truncate", "SetMaxSize", "Overwrite", "Read", "RRead"} =>
             Discards(rb) = Discards(op.pre)
       /\ op.name = "Reset" =>
             /\ MaxSize(rb) = MaxSize(op.pre)
             /\ rb.onDiscards = op.pre.onDiscards
       /\ (op.name = "SetOnDiscards" /\ op.arg = nil) => rb = op.pre

\* a Reset of a bounded buffer with a callback that has counted a discard
C27_Witness ==
    /\ op.name = "Reset"
    /\ Discards(op.pre) > 0
    /\ MaxSize(op.pre) > 0
    /\ op.pre.onDiscards # nil
    /\ ~IsEmpty(op.pre)
    /\ Discards(rb) = Discards(op.pre)

====
